---- MODULE Spec2Model ----
(***************************************************************************)
(* Smart Guitar Coach CLI (sgc): the OTA bundle build and verification     *)
(* commands of sg_spec/ai/coach/cli.py, with the pack-set loaders they     *)
(* call.  One action is one invocation of main(argv).  The filesystem is   *)
(* a set of directories and a map from file paths to file contents; a      *)
(* path is a tuple of names.                                               *)
(***************************************************************************)
EXTENDS Integers, Sequences, FiniteSets, TLC

VARIABLES
    fs,        \* the filesystem
    pre,       \* the filesystem before the last step
    last,      \* the last step: command, argv, how main ended, what it printed
    nbuilds,   \* number of ota-bundle and ota-pack invocations so far
    ntampers,  \* number of byte changes made by the environment so far
    orig,      \* the bytes, as built, of every artifact the environment has changed
    arr,       \* manifest discovery: the file paths below the extraction directory
    found      \* manifest discovery: the outcome of _find_bundle_root

vars == <<fs, pre, last, nbuilds, ntampers, orig, arr, found>>

(***************************************************************************)
(* Bounds                                                                  *)
(***************************************************************************)
MaxBuilds == 1
MaxTampers == 1
MaxDepth == 2

(***************************************************************************)
(* Python values                                                           *)
(***************************************************************************)
\* None, for optional command-line arguments and optional paths
NONE == "<None>"
NoPath == <<>>

\* bool(v) of an optional string argument: None and "" are falsy
Truthy(v) == v # NONE /\ v # ""

\* a str and a PackRefV1 model instance are different Python objects
PyStr(s) == [py |-> "str", v |-> s]
PackRefV1(s) == [py |-> "PackRefV1", v |-> s]

\* str.__eq__ answers only for another str; a str never equals a model
PyStrEq(s, x) == x.py = "str" /\ x.v = s

\* f"{x}" of a str is the string, of a model instance its field repr
FStr(x) == IF x.py = "str" THEN x.v ELSE "pack_id='" \o x.v \o "'"

\* outcome of a function: returned value or raised exception
Ok(v, f) == [exc |-> NONE, val |-> v, fs |-> f]
Raise(e, f) == [exc |-> e, fs |-> f]

(***************************************************************************)
(* Filesystem                                                              *)
(***************************************************************************)
EmptyFs == [dirs |-> {}, files |-> <<>>]

IsDir(f, p) == p \in f.dirs
IsFile(f, p) == p \in DOMAIN f.files
Exists(f, p) == IsDir(f, p) \/ IsFile(f, p)

Prefixes(p) == {SubSeq(p, 1, n) : n \in 1..Len(p)}

\* Path.mkdir(parents=True, exist_ok=True)
Mkdir(f, p) == [f EXCEPT !.dirs = @ \cup Prefixes(p)]

\* Path.write_text / write_bytes
WriteFile(f, p, c) ==
    [f EXCEPT !.files = [q \in (DOMAIN @) \cup {p} |-> IF q = p THEN c ELSE @[q]]]

\* the files below directory d, keyed by their path relative to d
Under(f, d) == {p \in DOMAIN f.files : Len(p) > Len(d) /\ SubSeq(p, 1, Len(d)) = d}
Rel(p, d) == SubSeq(p, Len(d) + 1, Len(p))
Tree(f, d) == [r \in {Rel(p, d) : p \in Under(f, d)} |-> f.files[d \o r]]

(***************************************************************************)
(* Inputs on disk (read only): session files and secret files              *)
(***************************************************************************)
SessionFiles == {"s1.json", "s2.json"}
SessionNo(p) == IF p = "s1.json" THEN 0 ELSE 1

SecretFiles == {"kf"}
SecretFileBytes(p) == "k1\n"

\* bytes.strip()
Strip(b) == IF b = "k1\n" THEN "k1" ELSE b

\* the secret selection shared by the commands: --secret, else --secret-file
ReadSecret(secret, secret_file) ==
    IF Truthy(secret) THEN Ok(secret, EmptyFs)
    ELSE IF Truthy(secret_file)
         THEN IF secret_file \in SecretFiles
              THEN Ok(Strip(SecretFileBytes(secret_file)), EmptyFs)
              ELSE Raise("FileNotFoundError", EmptyFs)
         ELSE Ok(NONE, EmptyFs)

(***************************************************************************)
(* Dance packs (dance_pack.py)                                             *)
(***************************************************************************)
\* bundled pack files, family/<pack id>.yaml
PackPaths ==
    { [family |-> "rock_american", stem |-> "p1"],
      [family |-> "funk", stem |-> "p2"],
      [family |-> "disco", stem |-> "p3"] }

list_pack_ids == {path.stem : path \in PackPaths}

DancePackV1(stem) == [pack_id |-> stem, display_name |-> "Pack " \o stem]

\* load_pack_by_id: the first bundled file whose stem equals the argument
load_pack_by_id(pack_id) ==
    IF \E path \in PackPaths : PyStrEq(path.stem, pack_id)
    THEN Ok(DancePackV1((CHOOSE path \in PackPaths : PyStrEq(path.stem, pack_id)).stem), EmptyFs)
    ELSE Raise("DancePackLoadError", EmptyFs)

pack_to_assignment_defaults(pack) == [tempo_for |-> pack.pack_id]

(***************************************************************************)
(* Dance pack sets (dance_pack_set.py)                                     *)
(***************************************************************************)
\* the raw YAML documents: bundled sets by file, and files a caller may name
RawSet(id, ids) == [id |-> id, display_name |-> "Set " \o id, tier |-> "core", packs |-> ids]

PackSetPackage ==
    { RawSet("setA", <<"p1", "p2">>), RawSet("setB", <<"p3">>) }

PackSetFiles == {"good.yaml", "badref.yaml", "dup.yaml", "empty.yaml"}

PackSetFileRaw(path) ==
    CASE path = "good.yaml" -> RawSet("setF", <<"p2", "p1">>)
      [] path = "badref.yaml" -> RawSet("setG", <<"p1", "px">>)
      [] path = "dup.yaml" -> RawSet("setH", <<"p1", "p1">>)
      [] OTHER -> RawSet("setE", <<>>)

Range(s) == {s[i] : i \in DOMAIN s}

\* variant: min_length 1 alone, without the _unique_pack_ids validator
DancePackSetV1_valid_without_unique(raw) == Len(raw.packs) >= 1

\* DancePackSetV1.model_validate: packs has min_length 1, pack_ids are unique
DancePackSetV1_valid(raw) ==
    /\ Len(raw.packs) >= 1
    /\ Cardinality(Range(raw.packs)) = Len(raw.packs)

\* the validated model: every packs entry is a PackRefV1 instance
DancePackSetV1(raw) ==
    [id |-> raw.id, display_name |-> raw.display_name, tier |-> raw.tier,
     packs |-> [i \in DOMAIN raw.packs |-> PackRefV1(raw.packs[i])]]

load_set_from_yaml_text(raw) ==
    IF DancePackSetV1_valid(raw) THEN Ok(DancePackSetV1(raw), EmptyFs)
    ELSE Raise("ValidationError", EmptyFs)

load_set_from_file(path) ==
    IF path \in PackSetFiles THEN load_set_from_yaml_text(PackSetFileRaw(path))
    ELSE Raise("FileNotFoundError", EmptyFs)

load_set_by_id(set_id) ==
    IF \E raw \in PackSetPackage : raw.id = set_id
    THEN load_set_from_yaml_text(CHOOSE raw \in PackSetPackage : raw.id = set_id)
    ELSE Raise("KeyError", EmptyFs)

\* validate_set_references: load_pack_by_id(item.pack_id) for every item
validate_set_references(pack_set) ==
    IF \A i \in DOMAIN pack_set.packs :
           load_pack_by_id(PyStr(pack_set.packs[i].v)).exc = NONE
    THEN Ok(NONE, EmptyFs)
    ELSE Raise("DancePackLoadError", EmptyFs)

(***************************************************************************)
(* Pack set policy (pack_set_policy.py)                                    *)
(***************************************************************************)
PackAssignmentBinding(item) ==
    [pack_id |-> item,
     pack |-> load_pack_by_id(item).val,
     defaults |-> pack_to_assignment_defaults(load_pack_by_id(item).val)]

\* get_pack_defaults_from_set: iterates pack_set.packs and hands each ELEMENT
\* to load_pack_by_id
get_pack_defaults_from_set(pack_set) ==
    IF \A i \in DOMAIN pack_set.packs : load_pack_by_id(pack_set.packs[i]).exc = NONE
    THEN Ok([set_id |-> pack_set.id, set_display_name |-> pack_set.display_name,
             tier |-> pack_set.tier,
             packs |-> [i \in DOMAIN pack_set.packs |-> PackAssignmentBinding(pack_set.packs[i])]],
            EmptyFs)
    ELSE Raise("DancePackLoadError", EmptyFs)

(***************************************************************************)
(* Manifest discovery (cli.py, _find_bundle_root)                          *)
(***************************************************************************)
\* paths(tree) is the set of file paths below the extraction directory,
\* each relative to it; the result is the chosen root, relative as well
Parent(p) == SubSeq(p, 1, Len(p) - 1)
Last(p) == p[Len(p)]

rglob_manifest(paths) == {p \in paths : Last(p) = "manifest.json"}

\* variant: the root is not looked at first, every manifest.json is a match
_find_bundle_root_without_root_check(paths) ==
    IF rglob_manifest(paths) = {} THEN Raise("ValueError: manifest.json not found in zip", EmptyFs)
    ELSE IF Cardinality(rglob_manifest(paths)) > 1
         THEN Raise("ValueError: multiple manifest.json found in zip (ambiguous)", EmptyFs)
    ELSE Ok(Parent(CHOOSE p \in rglob_manifest(paths) : TRUE), EmptyFs)

\* with several matches the code never reads matches[0]; with exactly one
\* match matches[0] is that match
_find_bundle_root(paths) ==
    IF <<"manifest.json">> \in paths THEN Ok(<<>>, EmptyFs)
    ELSE IF rglob_manifest(paths) = {} THEN Raise("ValueError: manifest.json not found in zip", EmptyFs)
    ELSE IF Cardinality(rglob_manifest(paths)) > 1
         THEN Raise("ValueError: multiple manifest.json found in zip (ambiguous)", EmptyFs)
    ELSE Ok(Parent(CHOOSE p \in rglob_manifest(paths) : TRUE), EmptyFs)

(***************************************************************************)
(* Assignments                                                             *)
(***************************************************************************)
\* uuid5(NAMESPACE_DNS, name): a function of the name alone
uuid5(name) == "uuid5:" \o name

Byte == 0..1

\* plan_assignment(evaluate_session(session), session.program_ref)
plan_assignment(session) ==
    [assignment_id |-> "assignment-of:" \o session,
     session_id |-> "session:" \o session,
     program |-> "program-of:" \o session,
     n |-> SessionNo(session)]

PackNo(pack_id) == IF pack_id.v = "p1" THEN 0 ELSE 1

\* _plan_assignment_from_pack_defaults
_plan_assignment_from_pack_defaults(pack_id, defaults, pack) ==
    [assignment_id |-> uuid5("pack-default-assignment:" \o FStr(pack_id)),
     session_id |-> uuid5("pack-default-session:" \o FStr(pack_id)),
     program |-> FStr(pack_id),
     n |-> PackNo(pack_id)]

(***************************************************************************)
(* OTA payload: digests, signatures, bundles, verification (ota_payload)   *)
(***************************************************************************)
\* content addressing: "sha256:" + hex digest of the exact bytes
sha256(bytes) == <<"sha256:", bytes>>

\* keyed hash of the deterministic serialisation of msg
NoSig == <<>>
hmac_sha256(secret, msg) == <<"hmac-sha256", secret, msg>>

Artifact(bytes) == [kind |-> "artifact", bytes |-> bytes]

\* the artifact files of one assignment bundle
BundleArtifacts(assignment) ==
    [name \in {"assignment.json", "program.json"} |->
        IF name = "assignment.json"
        THEN [kind |-> "artifact", bytes |-> <<assignment.n, 0>>,
              payload |-> [assignment_id |-> assignment.assignment_id,
                           session_id |-> assignment.session_id]]
        ELSE Artifact(<<assignment.n, 1>>)]

sign(secret, digests) ==
    IF secret = NONE THEN NoSig ELSE hmac_sha256(secret, digests)

BundleManifest(arts, secret) ==
    [kind |-> "manifest",
     artifacts |-> [name \in DOMAIN arts |-> sha256(arts[name].bytes)],
     signature |-> sign(secret, [name \in DOMAIN arts |-> sha256(arts[name].bytes)])]

\* the files of a bundle, relative to the bundle directory
BundleTree(assignment, secret) ==
    [r \in {<<name>> : name \in DOMAIN BundleArtifacts(assignment)} \cup {<<"manifest.json">>} |->
        IF r = <<"manifest.json">>
        THEN BundleManifest(BundleArtifacts(assignment), secret)
        ELSE BundleArtifacts(assignment)[r[1]]]

DefaultBundleName(assignment) == "ota_bundle__" \o assignment.assignment_id

RECURSIVE WriteTree(_, _, _, _)
WriteTree(f, d, tree, todo) ==
    IF todo = {} THEN f
    ELSE LET r == CHOOSE x \in todo : TRUE
         IN WriteTree(WriteFile(f, d \o r, tree[r]), d, tree, todo \ {r})

ZipFile(tree) == [kind |-> "zip", entries |-> tree]

BundleResult(bundle_dir, zip_path) == [bundle_dir |-> bundle_dir, zip_path |-> zip_path]

\* build_assignment_ota_bundle: writes <out_dir>/<name>/ with the artifacts
\* and manifest.json, and <out_dir>/<name>.zip when make_zip; a name that
\* is already taken is an error, not an overwrite
build_assignment_ota_bundle(f, assignment, out_dir, bundle_name, make_zip, hmac_secret) ==
    LET name == IF bundle_name = NONE THEN DefaultBundleName(assignment) ELSE bundle_name
        bundle_dir == out_dir \o <<name>>
        zip_path == out_dir \o <<name \o ".zip">>
        tree == BundleTree(assignment, hmac_secret)
        f1 == WriteTree(Mkdir(f, bundle_dir), bundle_dir, tree, DOMAIN tree)
    IN IF Exists(f, bundle_dir) \/ (make_zip /\ Exists(f, zip_path))
       THEN Raise("FileExistsError: NAME_COLLISION", f)
       ELSE IF make_zip
            THEN Ok(BundleResult(bundle_dir, zip_path), WriteFile(f1, zip_path, ZipFile(tree)))
            ELSE Ok(BundleResult(bundle_dir, NoPath), f1)

\* verdicts of the verifier
PASS == [ok |-> TRUE, reason |-> "PASS", artifacts |-> {}]
FAIL(reason, names) == [ok |-> FALSE, reason |-> reason, artifacts |-> names]

\* the tree below root r of a tree
SubTree(tree, r) ==
    [q \in {Rel(p, r) : p \in {x \in DOMAIN tree : Len(x) > Len(r) /\ SubSeq(x, 1, Len(r)) = r}} |->
        tree[r \o q]]

Missing(tree, m) == {name \in DOMAIN m.artifacts : <<name>> \notin DOMAIN tree}
Mismatched(tree, m) ==
    {name \in DOMAIN m.artifacts :
        <<name>> \in DOMAIN tree /\ sha256(tree[<<name>>].bytes) # m.artifacts[name]}

\* folder-form verification of the tree of one bundle directory: every
\* artifact of manifest.json is re-hashed; all failures are enumerated
verify_tree(tree) ==
    IF <<"manifest.json">> \notin DOMAIN tree THEN FAIL("MANIFEST_NOT_FOUND", {})
    ELSE LET m == tree[<<"manifest.json">>]
         IN IF Missing(tree, m) # {} THEN FAIL("FILE_MISSING", Missing(tree, m))
            ELSE IF Mismatched(tree, m) # {} THEN FAIL("DIGEST_MISMATCH", Mismatched(tree, m))
            ELSE PASS

\* verify_bundle_integrity(bundle_dir) -> bool
verify_bundle_integrity(f, bundle_dir) == verify_tree(Tree(f, bundle_dir)).ok

\* signature check of a manifest against a supplied secret
verify_signature(m, secret) == m.signature # NoSig /\ m.signature = hmac_sha256(secret, m.artifacts)

\* the temporary extraction directory of one zip verification
TempDir == <<"tmp_sgc_verify">>

\* zipfile extractall into the extraction directory
Extract(f, entries) == WriteTree(Mkdir(f, TempDir), TempDir, entries, DOMAIN entries)

\* removal of a directory with everything below it
RemoveTree(f, d) ==
    [dirs |-> {x \in f.dirs : ~(Len(x) >= Len(d) /\ SubSeq(x, 1, Len(d)) = d)},
     files |-> [p \in (DOMAIN f.files) \ Under(f, d) |-> f.files[p]]]

\* verification of an extracted archive: locate the root, verify the
\* folder, then the signature when a secret is supplied
verify_extracted(extracted, secret) ==
    LET root == _find_bundle_root(DOMAIN extracted)
    IN IF root.exc # NONE
       THEN IF rglob_manifest(DOMAIN extracted) = {}
            THEN FAIL("MANIFEST_NOT_FOUND", {}) ELSE FAIL("MANIFEST_AMBIGUOUS", {})
       ELSE LET tree == SubTree(extracted, root.val)
            IN IF ~verify_tree(tree).ok THEN verify_tree(tree)
               ELSE IF secret # NONE /\ ~verify_signature(tree[<<"manifest.json">>], secret)
                    THEN FAIL("SIGNATURE_INVALID", {})
               ELSE PASS

\* variant: the extraction directory is removed after a verdict, and is left
\* behind when reading the archive raises
verify_zip_bundle_without_finally(f, zip_path, secret) ==
    IF ~IsFile(f, zip_path) THEN Ok(FAIL("FILE_NOT_FOUND", {}), f)
    ELSE IF f.files[zip_path].kind # "zip"
         THEN Raise("BadZipFile", Mkdir(f, TempDir))
    ELSE Ok(verify_extracted(Tree(Extract(f, f.files[zip_path].entries), TempDir), secret),
            RemoveTree(Extract(f, f.files[zip_path].entries), TempDir))

\* verify_zip_bundle(zip_path, secret) -> (success, error): extract to a
\* temporary directory that is removed on every way out, whether the
\* verdict is a pass, a failure, or the archive cannot be read
verify_zip_bundle(f, zip_path, secret) ==
    IF ~IsFile(f, zip_path) THEN Ok(FAIL("FILE_NOT_FOUND", {}), f)
    ELSE IF f.files[zip_path].kind # "zip"
         THEN Raise("BadZipFile", RemoveTree(Mkdir(f, TempDir), TempDir))
    ELSE Ok(verify_extracted(Tree(Extract(f, f.files[zip_path].entries), TempDir), secret),
            RemoveTree(Extract(f, f.files[zip_path].entries), TempDir))

\* build_ota_payload(assignment, secret): no secret, no signature section
build_ota_payload(assignment, secret) ==
    [kind |-> "payload",
     body |-> [assignment_id |-> assignment.assignment_id, session_id |-> assignment.session_id],
     signature |-> sign(secret, <<assignment.assignment_id, assignment.session_id>>)]

\* verify_ota_payload(payload, secret) -> bool
verify_ota_payload(payload, secret) ==
    /\ payload.signature # NoSig
    /\ payload.signature = hmac_sha256(secret, <<payload.body.assignment_id, payload.body.session_id>>)

(***************************************************************************)
(* Commands (cli.py)                                                       *)
(***************************************************************************)
\* a command's return: exit code and what it printed
Ret(code, text, names, f) == Ok([code |-> code, text |-> text, names |-> names], f)

Count(bools) == Cardinality({i \in DOMAIN bools : bools[i]})

TopManifest(mode, set, outputs) ==
    [kind |-> "ota_bundle_manifest", schema_id |-> "ota_bundle_manifest",
     schema_version |-> "v1", mode |-> mode, set |-> set, outputs |-> outputs]

\* json.dumps accepts a str and rejects a model instance
JsonSerializable(ids) == \A i \in DOMAIN ids : ids[i].py = "str"

\* the per-pack loop of _build_bundles_from_pack_set, from binding i on
RECURSIVE PerPackLoop(_, _, _, _, _, _, _, _)
RECURSIVE PerPackNext(_, _, _, _, _, _, _, _)
PerPackLoop(f, bindings, i, outputs, args, out_dir, make_zip, hmac_secret) ==
    IF i > Len(bindings) THEN Ok(outputs, f)
    ELSE LET binding == bindings[i]
             assignment == _plan_assignment_from_pack_defaults(binding.pack_id, binding.defaults, binding.pack)
             bundle_name == "ota_bundle__" \o FStr(binding.pack_id)
         IN PerPackNext(build_assignment_ota_bundle(f, assignment, out_dir, bundle_name, make_zip, hmac_secret),
                        bindings, i, outputs, args, out_dir, make_zip, hmac_secret)

PerPackNext(res, bindings, i, outputs, args, out_dir, make_zip, hmac_secret) ==
    IF res.exc # NONE THEN Raise(res.exc, res.fs)
    ELSE PerPackLoop(res.fs, bindings, i + 1,
             Append(outputs, [dance_pack_id |-> bindings[i].pack_id,
                              display_name |-> bindings[i].pack.display_name,
                              bundle_dir |-> res.val.bundle_dir,
                              zip_path |-> res.val.zip_path]),
             args, out_dir, make_zip, hmac_secret)

\* the sub-bundle loop of _build_multi_pack_bundle, from binding i on
RECURSIVE SubBundleLoop(_, _, _, _, _, _)
RECURSIVE SubBundleNext(_, _, _, _, _, _)
\* variant: only the first sub-bundle is recorded in sub_outputs
SubBundleNext_first_only(res, bindings, i, sub_outputs, bundle_dir, hmac_secret) ==
    IF res.exc # NONE THEN Raise(res.exc, res.fs)
    ELSE SubBundleLoop(res.fs, bindings, i + 1,
             IF i > 1 THEN sub_outputs
             ELSE Append(sub_outputs, [dance_pack_id |-> bindings[i].pack_id,
                                       display_name |-> bindings[i].pack.display_name,
                                       sub_bundle_dir |-> Rel(res.val.bundle_dir, bundle_dir)]),
             bundle_dir, hmac_secret)

SubBundleLoop(f, bindings, i, sub_outputs, bundle_dir, hmac_secret) ==
    IF i > Len(bindings) THEN Ok(sub_outputs, f)
    ELSE LET binding == bindings[i]
             assignment == _plan_assignment_from_pack_defaults(binding.pack_id, binding.defaults, binding.pack)
             sub_bundle_name == FStr(binding.pack_id)
         IN SubBundleNext(build_assignment_ota_bundle(f, assignment, bundle_dir, sub_bundle_name, FALSE, hmac_secret),
                          bindings, i, sub_outputs, bundle_dir, hmac_secret)

SubBundleNext(res, bindings, i, sub_outputs, bundle_dir, hmac_secret) ==
    IF res.exc # NONE THEN Raise(res.exc, res.fs)
    ELSE SubBundleLoop(res.fs, bindings, i + 1,
             Append(sub_outputs, [dance_pack_id |-> bindings[i].pack_id,
                                  display_name |-> bindings[i].pack.display_name,
                                  sub_bundle_dir |-> Rel(res.val.bundle_dir, bundle_dir)]),
             bundle_dir, hmac_secret)

\* variant: the top-level manifest is written whether or not the loop got
\* through, with the sub-bundles built so far
_build_multi_pack_bundle_manifest_anyway(f, args, pack_set, set_defaults, set_summary, pack_ids, out_dir, hmac_secret, make_zip, manifest_path) ==
    LET bundle_dir == out_dir \o <<"ota_bundle__" \o pack_set.id>>
        loop == SubBundleLoop(Mkdir(f, bundle_dir), set_defaults.packs, 1, <<>>, bundle_dir, hmac_secret)
        f2 == WriteFile(loop.fs, manifest_path,
                  TopManifest("multi-pack",
                      <<[id |-> pack_set.id, pack_ids |-> pack_ids, summary |-> set_summary]>>,
                      <<[bundle_dir |-> bundle_dir, zip_path |-> NoPath, packs |-> <<>>]>>))
    IN IF loop.exc # NONE THEN Raise(loop.exc, f2) ELSE Ret(0, "Manifest", {}, f2)

\* variant: the archive is made before the wrapper manifest is written
_build_multi_pack_bundle_zip_first(f, args, pack_set, set_defaults, set_summary, pack_ids, out_dir, hmac_secret, make_zip, manifest_path) ==
    LET bundle_name == "ota_bundle__" \o pack_set.id
        bundle_dir == out_dir \o <<bundle_name>>
        loop == SubBundleLoop(Mkdir(f, bundle_dir), set_defaults.packs, 1, <<>>, bundle_dir, hmac_secret)
        zip_path == IF make_zip THEN out_dir \o <<bundle_name \o ".zip">> ELSE NoPath
        f2 == IF make_zip THEN WriteFile(loop.fs, zip_path, ZipFile(Tree(loop.fs, bundle_dir))) ELSE loop.fs
        f3 == WriteFile(f2, bundle_dir \o <<"bundle_manifest.json">>,
                  [kind |-> "ota_multi_pack_bundle", schema_id |-> "ota_multi_pack_bundle",
                   schema_version |-> "v1", set_id |-> pack_set.id,
                   set_display_name |-> pack_set.display_name, tier |-> pack_set.tier,
                   pack_count |-> Len(pack_ids), packs |-> loop.val])
    IN IF loop.exc # NONE THEN Raise(loop.exc, loop.fs)
       ELSE IF ~JsonSerializable(pack_ids) THEN Raise("TypeError", loop.fs)
       ELSE Ret(0, "Manifest", {}, WriteFile(f3, manifest_path,
                TopManifest("multi-pack",
                    <<[id |-> pack_set.id, pack_ids |-> pack_ids, summary |-> set_summary]>>,
                    <<[bundle_dir |-> bundle_dir, zip_path |-> zip_path, packs |-> loop.val]>>)))

_build_multi_pack_bundle(f, args, pack_set, set_defaults, set_summary, pack_ids, out_dir, hmac_secret, make_zip, manifest_path) ==
    LET bundle_name == "ota_bundle__" \o pack_set.id
        bundle_dir == out_dir \o <<bundle_name>>
        loop == SubBundleLoop(Mkdir(f, bundle_dir), set_defaults.packs, 1, <<>>, bundle_dir, hmac_secret)
        internal_manifest ==
            [kind |-> "ota_multi_pack_bundle", schema_id |-> "ota_multi_pack_bundle",
             schema_version |-> "v1", set_id |-> pack_set.id,
             set_display_name |-> pack_set.display_name, tier |-> pack_set.tier,
             pack_count |-> Len(pack_ids), packs |-> loop.val]
        f2 == WriteFile(loop.fs, bundle_dir \o <<"bundle_manifest.json">>, internal_manifest)
        zip_path == IF make_zip THEN out_dir \o <<bundle_name \o ".zip">> ELSE NoPath
        f3 == IF make_zip THEN WriteFile(f2, zip_path, ZipFile(Tree(f2, bundle_dir))) ELSE f2
        manifest ==
            TopManifest("multi-pack",
                <<[id |-> pack_set.id, pack_ids |-> pack_ids, summary |-> set_summary]>>,
                <<[bundle_dir |-> bundle_dir, zip_path |-> zip_path, packs |-> loop.val]>>)
    IN IF loop.exc # NONE THEN Raise(loop.exc, loop.fs)
       ELSE IF ~JsonSerializable(pack_ids) THEN Raise("TypeError", loop.fs)
       ELSE Ret(0, "Manifest", {}, WriteFile(f3, manifest_path, manifest))

\* the per-pack branch of _build_bundles_from_pack_set: the loop, then the manifest
PerPackBuild(loop, pack_set, set_summary, pack_ids, manifest_path) ==
    IF loop.exc # NONE THEN Raise(loop.exc, loop.fs)
    ELSE IF ~JsonSerializable(pack_ids) THEN Raise("TypeError", loop.fs)
    ELSE Ret(0, "Manifest", {},
             WriteFile(loop.fs, manifest_path,
                 TopManifest("per-pack",
                     <<[id |-> pack_set.id, pack_ids |-> pack_ids, summary |-> set_summary]>>,
                     loop.val)))

\* variant: the output directory and an empty manifest are written before the
\* set is loaded and its references are resolved
_build_bundles_from_pack_set_manifest_first(f, args, hmac_secret, make_zip, manifest_path) ==
    LET loaded == IF Truthy(args.dance_pack_set_path)
                  THEN load_set_from_file(args.dance_pack_set_path)
                  ELSE load_set_by_id(args.dance_pack_set)
        f1 == WriteFile(Mkdir(f, <<args.out>>), manifest_path, TopManifest("per-pack", <<>>, <<>>))
    IN IF loaded.exc # NONE THEN Raise(loaded.exc, f1)
       ELSE Raise("DancePackLoadError", f1)

_build_bundles_from_pack_set(f, args, hmac_secret, make_zip, manifest_path) ==
    LET loaded == IF Truthy(args.dance_pack_set_path)
                  THEN load_set_from_file(args.dance_pack_set_path)
                  ELSE load_set_by_id(args.dance_pack_set)
    IN IF loaded.exc # NONE THEN Raise(loaded.exc, f)
       ELSE IF validate_set_references(loaded.val).exc # NONE
            THEN Raise("DancePackLoadError", f)
       ELSE IF get_pack_defaults_from_set(loaded.val).exc # NONE
            THEN Raise("DancePackLoadError", f)
       ELSE LET pack_set == loaded.val
                set_defaults == get_pack_defaults_from_set(pack_set).val
                pack_ids == [i \in DOMAIN set_defaults.packs |-> set_defaults.packs[i].pack_id]
                set_summary == [id |-> pack_set.id, display_name |-> pack_set.display_name,
                                tier |-> pack_set.tier, pack_count |-> Len(pack_ids)]
                out_dir == <<args.out>>
                f1 == Mkdir(f, out_dir)
            IN IF args.multi_pack
               THEN _build_multi_pack_bundle(f1, args, pack_set, set_defaults, set_summary,
                        pack_ids, out_dir, hmac_secret, make_zip, manifest_path)
               ELSE PerPackBuild(PerPackLoop(f1, set_defaults.packs, 1, <<>>, args, out_dir,
                                             make_zip, hmac_secret),
                                 pack_set, set_summary, pack_ids, manifest_path)

\* variant: the session build labelled as a pack build
SessionManifest_single_pack(res) ==
    TopManifest("single-pack", <<>>,
        <<[bundle_dir |-> res.bundle_dir, zip_path |-> res.zip_path]>>)

\* variant: the session build fills in a set section
SessionManifest_with_set(res) ==
    TopManifest("single-session", <<[id |-> NONE, pack_ids |-> <<>>]>>,
        <<[bundle_dir |-> res.bundle_dir, zip_path |-> res.zip_path]>>)

\* the session-mode manifest of cmd_ota_bundle
SessionManifest(res) ==
    TopManifest("single-session", <<>>,
        <<[bundle_dir |-> res.bundle_dir, zip_path |-> res.zip_path]>>)

\* the tail of session mode: the manifest is written after the bundle is built
WriteSessionManifest(manifest_path, res) ==
    IF res.exc # NONE THEN Raise(res.exc, res.fs)
    ELSE Ret(0, "Manifest", {}, WriteFile(res.fs, manifest_path, SessionManifest(res.val)))

cmd_ota_bundle(f, args) ==
    LET make_zip == args.zip
        sec == ReadSecret(args.secret, args.secret_file)
        selectors == <<Truthy(args.session), Truthy(args.dance_pack_set),
                       Truthy(args.dance_pack_set_path)>>
        out_dir == <<args.out>>
        f1 == Mkdir(f, out_dir)
        manifest_path == IF Truthy(args.manifest) THEN <<args.manifest>>
                         ELSE out_dir \o <<"ota_manifest.json">>
    IN IF sec.exc # NONE THEN Raise(sec.exc, f)
       ELSE IF Count(selectors) > 1 THEN Ret(1, "ERROR: Choose only one", {}, f)
       ELSE IF Truthy(args.dance_pack_set) \/ Truthy(args.dance_pack_set_path)
            THEN _build_bundles_from_pack_set(f1, args, sec.val, make_zip, manifest_path)
       ELSE IF ~Truthy(args.session) THEN Ret(1, "ERROR: --session required", {}, f1)
       ELSE IF args.session \notin SessionFiles THEN Raise("FileNotFoundError", f1)
       ELSE WriteSessionManifest(manifest_path,
                build_assignment_ota_bundle(f1, plan_assignment(args.session), out_dir,
                                            args.name, make_zip, sec.val))

\* variant: a bundle that passes is stamped with a marker file
cmd_ota_verify_folder_stamping(f, args) ==
    IF ~verify_bundle_integrity(f, args.bundle_dir)
    THEN Ret(1, "FAIL: bundle integrity check failed", {}, f)
    ELSE Ret(0, "OK", {}, WriteFile(f, args.bundle_dir \o <<".verified">>, [kind |-> "stamp"]))

\* variant: the failure branch prints its message and does not return
cmd_ota_verify_folder_falls_through(f, args) ==
    IF ~verify_bundle_integrity(f, args.bundle_dir)
    THEN Ret(0, "FAIL: bundle integrity check failed", {}, f)
    ELSE Ret(0, "OK", {}, f)

cmd_ota_verify_folder(f, args) ==
    IF ~verify_bundle_integrity(f, args.bundle_dir)
    THEN Ret(1, "FAIL: bundle integrity check failed", {}, f)
    ELSE Ret(0, "OK", {}, f)

\* the report of cmd_ota_verify_zip on the outcome of verify_zip_bundle
ReportZip(res) ==
    IF res.exc # NONE THEN Raise(res.exc, res.fs)
    ELSE IF res.val.ok THEN Ret(0, "OK", {}, res.fs)
    ELSE Ret(1, "FAIL: " \o res.val.reason, res.val.artifacts, res.fs)

\* variant: the bytes of the secret file are used without strip()
cmd_ota_verify_zip_unstripped(f, args) ==
    ReportZip(verify_zip_bundle(f, args.zip_path,
        IF Truthy(args.secret) THEN args.secret
        ELSE IF Truthy(args.secret_file) THEN SecretFileBytes(args.secret_file)
        ELSE NONE))

cmd_ota_verify_zip(f, args) ==
    IF ReadSecret(args.secret, args.secret_file).exc # NONE
    THEN Raise(ReadSecret(args.secret, args.secret_file).exc, f)
    ELSE ReportZip(verify_zip_bundle(f, args.zip_path, ReadSecret(args.secret, args.secret_file).val))

cmd_ota_pack(f, args) ==
    LET sec == ReadSecret(args.secret, args.secret_file)
        payload == build_ota_payload(plan_assignment(args.session), sec.val)
    IN IF args.session \notin SessionFiles THEN Raise("FileNotFoundError", f)
       ELSE IF sec.exc # NONE THEN Raise(sec.exc, f)
       ELSE IF Truthy(args.output)
            THEN Ret(0, "Written to", {}, WriteFile(f, <<args.output>>, payload))
            ELSE Ret(0, "payload", {}, f)

\* variant: the verdict of verify_ota_payload is not consulted
cmd_ota_verify_hmac_unchecked(f, args) ==
    LET sec == ReadSecret(args.secret, args.secret_file)
    IN IF ~IsFile(f, <<args.payload>>) THEN Raise("FileNotFoundError", f)
       ELSE IF sec.exc # NONE THEN Raise(sec.exc, f)
       ELSE IF sec.val = NONE THEN Ret(1, "ERROR: --secret or --secret-file required", {}, f)
       ELSE Ret(0, "OK: signature valid", {}, f)

\* variant: without a secret an unsigned payload passes
cmd_ota_verify_hmac_lenient(f, args) ==
    LET sec == ReadSecret(args.secret, args.secret_file)
    IN IF ~IsFile(f, <<args.payload>>) THEN Raise("FileNotFoundError", f)
       ELSE IF sec.exc # NONE THEN Raise(sec.exc, f)
       ELSE IF sec.val = NONE
            THEN IF f.files[<<args.payload>>].signature = NoSig
                 THEN Ret(0, "OK: signature valid", {}, f)
                 ELSE Ret(1, "ERROR: --secret or --secret-file required", {}, f)
       ELSE IF verify_ota_payload(f.files[<<args.payload>>], sec.val)
            THEN Ret(0, "OK: signature valid", {}, f)
            ELSE Ret(1, "FAIL: signature invalid or missing", {}, f)

cmd_ota_verify_hmac(f, args) ==
    LET sec == ReadSecret(args.secret, args.secret_file)
    IN IF ~IsFile(f, <<args.payload>>) THEN Raise("FileNotFoundError", f)
       ELSE IF sec.exc # NONE THEN Raise(sec.exc, f)
       ELSE IF sec.val = NONE THEN Ret(1, "ERROR: --secret or --secret-file required", {}, f)
       ELSE IF verify_ota_payload(f.files[<<args.payload>>], sec.val)
            THEN Ret(0, "OK: signature valid", {}, f)
            ELSE Ret(1, "FAIL: signature invalid or missing", {}, f)

\* build_parser: ota-bundle defines --session, --dance-pack-set and
\* --dance-pack-set-path; --dance-pack abbreviates two options (ambiguous)
\* and --dance-pack-path is unrecognised: parse_args exits with status 2
parse_args(cmd, argv) ==
    IF cmd = "ota-bundle" /\ (argv.dance_pack # NONE \/ argv.dance_pack_path # NONE)
    THEN Raise("SystemExit", EmptyFs)
    ELSE Ok(argv, EmptyFs)

dispatch(f, cmd, args) ==
    CASE cmd = "ota-bundle" -> cmd_ota_bundle(f, args)
      [] cmd = "ota-verify-folder" -> cmd_ota_verify_folder(f, args)
      [] cmd = "ota-verify-zip" -> cmd_ota_verify_zip(f, args)
      [] cmd = "ota-pack" -> cmd_ota_pack(f, args)
      [] OTHER -> cmd_ota_verify_hmac(f, args)

Outcome(cmd, argv, kind, code, text, names, f) ==
    [cmd |-> cmd, argv |-> argv, kind |-> kind, code |-> code, text |-> text,
     names |-> names, fs |-> f]

\* main: SystemExit of parse_args propagates; FileNotFoundError returns 2,
\* any other exception returns 1
Returned(cmd, argv, r) ==
    IF r.exc = NONE
    THEN Outcome(cmd, argv, "return", r.val.code, r.val.text, r.val.names, r.fs)
    ELSE IF r.exc = "FileNotFoundError"
         THEN Outcome(cmd, argv, "return", 2, "ERROR: file not found", {}, r.fs)
    ELSE Outcome(cmd, argv, "return", 1, "ERROR: " \o r.exc, {}, r.fs)

main(f, cmd, argv) ==
    IF parse_args(cmd, argv).exc # NONE
    THEN Outcome(cmd, argv, "SystemExit", 2, "usage", {}, f)
    ELSE Returned(cmd, argv, dispatch(f, cmd, argv))

(***************************************************************************)
(* Invocations                                                             *)
(***************************************************************************)
\* The selector values that name nothing loadable ("nofile.json", "nosuch",
\* "badref.yaml") are passed on their own; the loadable ones in every combination
Combined(a) ==
    \/ /\ a.session \in {NONE, "s1.json"}
       /\ a.dance_pack_set \in {NONE, "setA"}
       /\ a.dance_pack_set_path \in {NONE, "good.yaml"}
    \/ /\ a.session = "nofile.json" /\ a.dance_pack_set = NONE /\ a.dance_pack_set_path = NONE
    \/ /\ a.session = NONE /\ a.dance_pack_set = "nosuch" /\ a.dance_pack_set_path = NONE
    \/ /\ a.session = NONE /\ a.dance_pack_set = NONE /\ a.dance_pack_set_path = "badref.yaml"

\* argv of ota-bundle.  ParserArgv uses the options build_parser defines;
\* TestArgv adds the selectors --dance-pack and --dance-pack-path that the
\* test suite passes, with the packaging flags left at their defaults
ParserArgv ==
  { a \in
    [session : {NONE, "s1.json", "nofile.json"},
     dance_pack : {NONE},
     dance_pack_path : {NONE},
     dance_pack_set : {NONE, "setA", "nosuch"},
     dance_pack_set_path : {NONE, "good.yaml", "badref.yaml"},
     multi_pack : BOOLEAN,
     out : {"o1", "o2"},
     manifest : {NONE},
     name : {NONE, "custom"},
     zip : BOOLEAN,
     secret : {NONE, "k1"},
     secret_file : {NONE}] : Combined(a) }

TestArgv ==
    { a \in [session : {NONE, "s1.json", "nofile.json"},
             dance_pack : {NONE, "p1"},
             dance_pack_path : {NONE, "pack.yaml"},
             dance_pack_set : {NONE, "setA", "nosuch"},
             dance_pack_set_path : {NONE, "good.yaml", "badref.yaml"},
             multi_pack : {FALSE},
             out : {"o1", "o2"},
             manifest : {NONE},
             name : {NONE, "custom"},
             zip : {FALSE},
             secret : {NONE},
             secret_file : {NONE}] :
        Combined(a) /\ (a.dance_pack # NONE \/ a.dance_pack_path # NONE) }

BundleArgv == ParserArgv \cup TestArgv

PackArgv ==
    [session : {"s1.json", "s2.json", "nofile.json"},
     secret : {NONE, "k1", "k2"},
     secret_file : {NONE, "kf"},
     output : {NONE, "pay1.json"}]

\* --secret / --secret-file of the verification commands
VerifySecrets ==
    { [secret |-> NONE, secret_file |-> NONE], [secret |-> "k1", secret_file |-> NONE],
      [secret |-> "k2", secret_file |-> NONE], [secret |-> NONE, secret_file |-> "kf"] }

Record(r) ==
    /\ last' = [r EXCEPT !.fs = <<>>]
    /\ fs' = r.fs
    /\ pre' = fs

Run(cmd, argv) == Record(main(fs, cmd, argv))

\* The verification commands write nothing: every state reached by a step
\* taken after one of them is reached by the same step taken before it.
\* The search therefore ends a run at its verification.
Verified == last.cmd \in {"ota-verify-folder", "ota-verify-zip", "ota-verify"}

OtaBundle ==
    /\ ~Verified
    /\ nbuilds < MaxBuilds
    /\ \E argv \in BundleArgv : Run("ota-bundle", argv)
    /\ nbuilds' = nbuilds + 1
    /\ UNCHANGED <<ntampers, orig, arr, found>>

OtaPack ==
    /\ ~Verified
    /\ nbuilds < MaxBuilds
    /\ \E argv \in PackArgv : Run("ota-pack", argv)
    /\ nbuilds' = nbuilds + 1
    /\ UNCHANGED <<ntampers, orig, arr, found>>

OtaVerifyFolder ==
    /\ ~Verified
    /\ \E d \in fs.dirs : Run("ota-verify-folder", [bundle_dir |-> d])
    /\ UNCHANGED <<nbuilds, ntampers, orig, arr, found>>

ZipPaths(f) == {p \in DOMAIN f.files : f.files[p].kind = "zip"}

\* files that are no archive: the top-level manifests
NotZipPaths(f) == {p \in DOMAIN f.files : f.files[p].kind = "ota_bundle_manifest"}

OtaVerifyZip ==
    /\ ~Verified
    /\ \/ \E z \in ZipPaths(fs) \cup {<<"nozip.zip">>}, k \in VerifySecrets :
             Run("ota-verify-zip", [zip_path |-> z, secret |-> k.secret, secret_file |-> k.secret_file])
       \/ \E z \in NotZipPaths(fs) :
             Run("ota-verify-zip", [zip_path |-> z, secret |-> NONE, secret_file |-> NONE])
    /\ UNCHANGED <<nbuilds, ntampers, orig, arr, found>>

OtaVerifyHmac ==
    /\ ~Verified
    /\ \E p \in {"pay1.json"}, k \in VerifySecrets :
           Run("ota-verify", [payload |-> p, secret |-> k.secret, secret_file |-> k.secret_file])
    /\ UNCHANGED <<nbuilds, ntampers, orig, arr, found>>

\* the first change of an artifact records the bytes it was built with
Remember(loc, bytes) ==
    IF loc \in DOMAIN orig THEN orig
    ELSE [l \in (DOMAIN orig) \cup {loc} |-> IF l = loc THEN bytes ELSE orig[l]]

\* the environment changes one byte of one artifact file of a bundle folder
ArtifactPaths(f) == {p \in DOMAIN f.files : f.files[p].kind = "artifact"}

TamperFolder ==
    /\ ~Verified
    /\ ntampers < MaxTampers
    /\ \E p \in ArtifactPaths(fs), i \in 1..2, b \in Byte :
          /\ b # fs.files[p].bytes[i]
          /\ fs' = [fs EXCEPT !.files[p].bytes[i] = b]
          /\ last' = [cmd |-> "tamper", argv |-> [path |-> p, zip_path |-> NoPath], kind |-> "env",
                      code |-> 0, text |-> "", names |-> {Last(p)}, fs |-> <<>>]
          /\ orig' = Remember(<<NoPath, p>>, fs.files[p].bytes)
    /\ pre' = fs
    /\ ntampers' = ntampers + 1
    /\ UNCHANGED <<nbuilds, arr, found>>

\* the environment changes one byte of one artifact inside a zip archive
TamperZip ==
    /\ ~Verified
    /\ ntampers < MaxTampers
    /\ \E z \in ZipPaths(fs) :
         \E r \in {x \in DOMAIN fs.files[z].entries : fs.files[z].entries[x].kind = "artifact"},
            i \in 1..2, b \in Byte :
          /\ b # fs.files[z].entries[r].bytes[i]
          /\ fs' = [fs EXCEPT !.files[z].entries[r].bytes[i] = b]
          /\ last' = [cmd |-> "tamper", argv |-> [path |-> r, zip_path |-> z], kind |-> "env",
                      code |-> 0, text |-> "", names |-> {Last(r)}, fs |-> <<>>]
          /\ orig' = Remember(<<z, r>>, fs.files[z].entries[r].bytes)
    /\ pre' = fs
    /\ ntampers' = ntampers + 1
    /\ UNCHANGED <<nbuilds, arr, found>>

NotRun == [exc |-> "not run", fs |-> EmptyFs]

Init ==
    /\ fs = [dirs |-> {<<"o1">>}, files |-> <<>>]
    /\ pre = fs
    /\ last = [cmd |-> "none", kind |-> "none", code |-> 0, text |-> "", names |-> {}, fs |-> <<>>]
    /\ nbuilds = 0
    /\ ntampers = 0
    /\ orig = <<>>
    /\ arr = {}
    /\ found = NotRun

Next ==
    \/ OtaBundle
    \/ OtaPack
    \/ OtaVerifyFolder
    \/ OtaVerifyZip
    \/ OtaVerifyHmac
    \/ TamperFolder
    \/ TamperZip

Spec == Init /\ [][Next]_vars

(***************************************************************************)
(* Manifest discovery on every arrangement of an extraction directory      *)
(***************************************************************************)
DirNames == {"a", "b"}

\* the directories at most n levels below the extraction directory
RECURSIVE DirsUpTo(_)
DirsUpTo(n) ==
    IF n = 0 THEN {<<>>}
    ELSE DirsUpTo(n - 1) \cup {Append(d, c) : d \in DirsUpTo(n - 1), c \in DirNames}

\* where a manifest.json may lie, and other files of the archive
ManifestLocations == {Append(d, "manifest.json") : d \in DirsUpTo(MaxDepth)}
OtherFiles == {<<c, "data.bin">> : c \in DirNames}

InitFind ==
    /\ fs = EmptyFs
    /\ pre = fs
    /\ last = [cmd |-> "none", kind |-> "none", code |-> 0, text |-> "", names |-> {}, fs |-> <<>>]
    /\ nbuilds = 0
    /\ ntampers = 0
    /\ orig = <<>>
    /\ arr \in SUBSET (ManifestLocations \cup OtherFiles)
    /\ found = NotRun

Find ==
    /\ found = NotRun
    /\ found' = _find_bundle_root(arr)
    /\ UNCHANGED <<fs, pre, last, nbuilds, ntampers, orig, arr>>

NextFind == Find

SpecFind == InitFind /\ [][NextFind]_vars

(***************************************************************************)
(* _build_multi_pack_bundle applied to the bindings its signature declares  *)
(***************************************************************************)
\* the longest pack list of a set
MaxPacks == 2

\* the pack lists a validated set can carry: bundled pack ids, no repeats
PackIdLists ==
    { ids \in UNION {[1..n -> list_pack_ids] : n \in 1..MaxPacks} :
        Cardinality(Range(ids)) = Len(ids) }

\* SetPackAssignmentBindings with pack_id: str, as PackAssignmentBinding declares
SetDefaultsOf(pack_set) ==
    [set_id |-> pack_set.id, set_display_name |-> pack_set.display_name, tier |-> pack_set.tier,
     packs |-> [i \in DOMAIN pack_set.packs |-> PackAssignmentBinding(PyStr(pack_set.packs[i].v))]]

\* the call _build_bundles_from_pack_set makes when --multi-pack is given:
\* out_dir has been created, pack_ids and set_summary come from set_defaults
CallMultiPack(f, a, pack_set, set_defaults) ==
    _build_multi_pack_bundle(Mkdir(f, <<a.out>>), a, pack_set, set_defaults,
        [id |-> pack_set.id, display_name |-> pack_set.display_name,
         tier |-> pack_set.tier, pack_count |-> Len(set_defaults.packs)],
        [i \in DOMAIN set_defaults.packs |-> set_defaults.packs[i].pack_id],
        <<a.out>>, a.secret, a.zip, <<a.out, "ota_manifest.json">>)

\* the per-pack branch _build_bundles_from_pack_set takes otherwise
CallPerPack(f, a, pack_set, set_defaults) ==
    PerPackBuild(PerPackLoop(Mkdir(f, <<a.out>>), set_defaults.packs, 1, <<>>, a, <<a.out>>,
                             a.zip, a.secret),
        pack_set,
        [id |-> pack_set.id, display_name |-> pack_set.display_name,
         tier |-> pack_set.tier, pack_count |-> Len(set_defaults.packs)],
        [i \in DOMAIN set_defaults.packs |-> set_defaults.packs[i].pack_id],
        <<a.out, "ota_manifest.json">>)

\* the outcome of a call: the value returned, or the exception raised, which
\* main reports with exit status 1
CalledAs(cmd, a, r) ==
    IF r.exc = NONE
    THEN Outcome(cmd, a, "return", r.val.code, r.val.text, r.val.names, r.fs)
    ELSE Outcome(cmd, a, "raise", 1, r.exc, {}, r.fs)

Called(a, r) == CalledAs("_build_multi_pack_bundle", a, r)

\* a set id is any string of 3 to 128 characters: the id of a bundled set, or
\* a string that is also the id of a pack
SetIds == {"setA", "p1"}

MultiPackArgs ==
    [set_id : SetIds, pack_ids : PackIdLists, out : {"o1"}, multi_pack : {TRUE},
     name : {NONE, "custom"}, zip : BOOLEAN, secret : {NONE, "k1"}]

MultiPack ==
    /\ nbuilds < MaxBuilds
    /\ \E a \in MultiPackArgs :
          Record(Called(a, CallMultiPack(fs, a, DancePackSetV1(RawSet(a.set_id, a.pack_ids)),
                                         SetDefaultsOf(DancePackSetV1(RawSet(a.set_id, a.pack_ids))))))
    /\ nbuilds' = nbuilds + 1
    /\ UNCHANGED <<ntampers, orig, arr, found>>

PerPackArgs ==
    [set_id : SetIds, pack_ids : PackIdLists, out : {"o1"}, multi_pack : {FALSE},
     name : {NONE}, zip : BOOLEAN, secret : {NONE, "k1"}]

PerPack ==
    /\ nbuilds < MaxBuilds
    /\ \E a \in PerPackArgs :
          Record(CalledAs("_build_bundles_from_pack_set", a,
                          CallPerPack(fs, a, DancePackSetV1(RawSet(a.set_id, a.pack_ids)),
                                      SetDefaultsOf(DancePackSetV1(RawSet(a.set_id, a.pack_ids))))))
    /\ nbuilds' = nbuilds + 1
    /\ UNCHANGED <<ntampers, orig, arr, found>>

\* what an earlier combined build of setA = [p2] into o1 leaves
EarlierCombinedBundle ==
    CallMultiPack([dirs |-> {<<"o1">>}, files |-> <<>>],
                  [out |-> "o1", zip |-> FALSE, secret |-> NONE],
                  DancePackSetV1(RawSet("setA", <<"p2">>)),
                  SetDefaultsOf(DancePackSetV1(RawSet("setA", <<"p2">>)))).fs

\* what `ota-bundle --session s1.json --out o1 --name ota_bundle__p2` leaves
SessionBundleNamedAsPack ==
    build_assignment_ota_bundle([dirs |-> {<<"o1">>}, files |-> <<>>], plan_assignment("s1.json"),
                                <<"o1">>, "ota_bundle__p2", FALSE, NONE).fs

\* what `ota-bundle --session s1.json --out o1 --name ota_bundle__setA` leaves
SessionBundleNamedAsSet ==
    build_assignment_ota_bundle([dirs |-> {<<"o1">>}, files |-> <<>>], plan_assignment("s1.json"),
                                <<"o1">>, "ota_bundle__setA", FALSE, NONE).fs

\* the output directory is empty, or holds what an earlier build left
InitMulti ==
    /\ fs \in {[dirs |-> {<<"o1">>}, files |-> <<>>], SessionBundleNamedAsSet,
                SessionBundleNamedAsPack, EarlierCombinedBundle}
    /\ pre = fs
    /\ last = [cmd |-> "none", kind |-> "none", code |-> 0, text |-> "", names |-> {}, fs |-> <<>>]
    /\ nbuilds = 0
    /\ ntampers = 0
    /\ orig = <<>>
    /\ arr = {}
    /\ found = NotRun

NextMulti == MultiPack \/ PerPack

SpecMulti == InitMulti /\ [][NextMulti]_vars

(***************************************************************************)
(* Pack set documents: validation, then the bindings of the validated set  *)
(***************************************************************************)
\* pack ids a document may name: the bundled ones and one that is not bundled
RefIds == list_pack_ids \cup {"px"}

\* the packs lists of the documents: empty, with repeats, with unresolved ids
RawPackLists == UNION {[1..n -> RefIds] : n \in 0..(MaxPacks + 1)}

\* a document is given; nothing has been loaded
InitSet ==
    /\ arr \in {RawSet("setA", ids) : ids \in RawPackLists}
    /\ found = NotRun
    /\ last = [cmd |-> "none", kind |-> "none", code |-> 0, text |-> "", names |-> {}, fs |-> <<>>]
    /\ fs = EmptyFs
    /\ pre = EmptyFs
    /\ nbuilds = 0
    /\ ntampers = 0
    /\ orig = <<>>

\* load_set_from_yaml_text on the document
LoadSet ==
    /\ found = NotRun
    /\ found' = load_set_from_yaml_text(arr)
    /\ UNCHANGED <<fs, pre, last, nbuilds, ntampers, orig, arr>>

\* validate_set_references and get_pack_defaults_from_set on the loaded set,
\* as _build_bundles_from_pack_set calls them
GetPackDefaults ==
    /\ found.exc = NONE
    /\ last.cmd = "none"
    /\ last' = [cmd |-> "get_pack_defaults_from_set", kind |-> "call", code |-> 0, text |-> "",
                names |-> {}, fs |-> <<>>,
                refs |-> validate_set_references(found.val).exc,
                defaults |-> get_pack_defaults_from_set(found.val)]
    /\ UNCHANGED <<fs, pre, found, nbuilds, ntampers, orig, arr>>

NextSet == LoadSet \/ GetPackDefaults

SpecSet == InitSet /\ [][NextSet]_vars

(***************************************************************************)
(* Contracts governance gate (scripts/ci/check_contracts_governance.py)    *)
(***************************************************************************)
\* Strings are sequences of symbols.  A symbol is a character ("a", "_",
\* "2", "-") or a fixed piece of text that the gate only ever meets whole
\* ("contracts/", "_v1", ".schema.json", ...).
StartsWith(s, p) == Len(s) >= Len(p) /\ SubSeq(s, 1, Len(p)) = p
EndsWith(s, p) == Len(s) >= Len(p) /\ SubSeq(s, Len(s) - Len(p) + 1, Len(s)) = p

\* Python's `s in text` on strings
Contains(text, s) == \E i \in 1..(Len(text) - Len(s) + 1) : SubSeq(text, i, i + Len(s) - 1) = s

\* the symbols of the class [A-Za-z0-9_]
WordSymbols == {"a", "_", "2", "_v1"}

\* the matcher of the gate's unit tests: the stem as a whole token, as the
\* regular expression (?<![A-Za-z0-9_])stem(?![A-Za-z0-9_]) finds it
stem_mentioned(text, stem) ==
    \E i \in 1..(Len(text) - Len(stem) + 1) :
        /\ SubSeq(text, i, i + Len(stem) - 1) = stem
        /\ (i = 1 \/ text[i - 1] \notin WordSymbols)
        /\ (i + Len(stem) - 1 = Len(text) \/ text[i + Len(stem)] \notin WordSymbols)

ChangelogPath == <<"contracts/", "CHANGELOG.md">>

is_contract_schema(path) == StartsWith(path, <<"contracts/">>) /\ EndsWith(path, <<".schema.json">>)

is_contract_sha(path) == StartsWith(path, <<"contracts/">>) /\ EndsWith(path, <<".schema.sha256">>)

\* contract_stem: the file name without .schema.json / .schema.sha256
contract_stem(path) ==
    IF EndsWith(path, <<".schema.json">>) \/ EndsWith(path, <<".schema.sha256">>)
    THEN SubSeq(path, 2, Len(path) - 1)
    ELSE SubSeq(path, 2, Len(path))

\* is_v1_contract: re.search(r"_v1\.schema\.(json|sha256)$", path)
is_v1_contract(path) ==
    EndsWith(path, <<"_v1", ".schema.json">>) \/ EndsWith(path, <<"_v1", ".schema.sha256">>)

\* variant: the released flag is not consulted
read_contracts_version_always_released(version) == Ok(TRUE, EmptyFs)

\* read_contracts_version: a missing file counts as not released, a file
\* that does not parse is an error
read_contracts_version(version) ==
    CASE version = "missing" -> Ok(FALSE, EmptyFs)
      [] version = "malformed" -> Raise("RuntimeError", EmptyFs)
      [] version = "released" -> Ok(TRUE, EmptyFs)
      [] OTHER -> Ok(FALSE, EmptyFs)

Violation(code, about) == [code |-> code, about |-> about]

\* check_sha256_format: some contracts/*.schema.sha256 is not one line of 64
\* lowercase hex digits
check_sha256_format(repo) ==
    IF repo.bad_sha THEN {Violation("SHA256_FORMAT", {})} ELSE {}

check_changelog_required(repo) ==
    LET contract_changes == {p \in repo.changed : is_contract_schema(p) \/ is_contract_sha(p)}
        stems == {contract_stem(p) : p \in contract_changes}
        missing == {st \in stems : ~Contains(repo.diff, st)}
    IN IF contract_changes = {} THEN {}
       ELSE IF ChangelogPath \notin repo.changed THEN {Violation("CHANGELOG_REQUIRED", {})}
       ELSE IF missing # {} THEN {Violation("CHANGELOG_MISSING_MENTIONS", missing)}
       ELSE {}

check_v1_immutability(repo) ==
    LET v1_touched == {p \in repo.changed :
                          (is_contract_schema(p) \/ is_contract_sha(p)) /\ is_v1_contract(p)}
    IN IF ~read_contracts_version(repo.version).val THEN {}
       ELSE IF v1_touched # {} THEN {Violation("V1_IMMUTABLE", v1_touched)}
       ELSE {}

\* main of the gate: 0 pass, 1 violations, 2 execution error
gov_main(repo) ==
    IF ~repo.git THEN [code |-> 2, violations |-> {}]
    ELSE IF read_contracts_version(repo.version).exc # NONE THEN [code |-> 2, violations |-> {}]
    ELSE LET violations == check_sha256_format(repo) \cup check_changelog_required(repo)
                             \cup check_v1_immutability(repo)
         IN [code |-> IF violations = {} THEN 0 ELSE 1, violations |-> violations]

\* the longest changelog diff
MaxText == 3

\* the files a change set may touch: two contracts, one of them v1 with its
\* hash file, the changelog, and a schema outside contracts/
GovPaths ==
    { <<"contracts/", "a", ".schema.json">>, <<"contracts/", "a", "_v1", ".schema.json">>,
      <<"contracts/", "a", "_v1", ".schema.sha256">>, ChangelogPath,
      <<"docs/", "a", "_v1", ".schema.json">> }

DiffTexts == UNION {[1..n -> {"a", "_", "2", "-", "_v1"}] : n \in 0..MaxText}

\* a repository state and change set the gate is run on
GovInputs ==
    [git : {TRUE}, changed : SUBSET GovPaths, diff : DiffTexts, bad_sha : BOOLEAN,
     version : {"missing", "released", "unreleased", "malformed"}]
    \cup [git : {FALSE}, changed : {{}}, diff : {<<>>}, bad_sha : {FALSE}, version : {"missing"}]

InitGov ==
    /\ arr \in GovInputs
    /\ found = NotRun
    /\ last = [cmd |-> "none", kind |-> "none", code |-> 0, text |-> "", names |-> {}, fs |-> <<>>]
    /\ fs = EmptyFs
    /\ pre = EmptyFs
    /\ nbuilds = 0
    /\ ntampers = 0
    /\ orig = <<>>

Gate ==
    /\ found = NotRun
    /\ found' = gov_main(arr)
    /\ UNCHANGED <<fs, pre, last, nbuilds, ntampers, orig, arr>>

NextGov == Gate

SpecGov == InitGov /\ [][NextGov]_vars

(***************************************************************************)
(* Properties                                                              *)
(***************************************************************************)
SelectorNames ==
    {"session", "dance_pack", "dance_pack_path", "dance_pack_set", "dance_pack_set_path"}

\* the selectors an ota-bundle command line supplies
Supplied(a) == {k \in SelectorNames : a[k] # NONE}

IsBundle == last.cmd = "ota-bundle"

\* the top-level manifests on disk
TopManifests(f) == {p \in DOMAIN f.files : f.files[p].kind = "ota_bundle_manifest"}

ManifestOf(a) == <<a.out, "ota_manifest.json">>

\* the secret a verification command line supplies: --secret, else the
\* content of the secret file without its trailing newline
VerifierSecret(a) ==
    IF a.secret # NONE THEN a.secret
    ELSE IF a.secret_file = "kf" THEN "k1" ELSE NONE

\* the secret a signature was made with
SignedWith(signature) == IF signature = NoSig THEN NONE ELSE signature[2]

\* the artifacts, by name, whose bytes differ from the bytes they were built with
ModifiedInFolder(d) ==
    {n \in {"assignment.json", "program.json"} :
        /\ <<NoPath, d \o <<n>>>> \in DOMAIN orig
        /\ fs.files[d \o <<n>>].bytes # orig[<<NoPath, d \o <<n>>>>]}

ModifiedInZip(z) ==
    {n \in {"assignment.json", "program.json"} :
        /\ <<z, <<n>>>> \in DOMAIN orig
        /\ fs.files[z].entries[<<n>>].bytes # orig[<<z, <<n>>>>]}

IsZip(z) == IsFile(fs, z) /\ fs.files[z].kind = "zip"

IsBundleDir(d) ==
    /\ IsFile(fs, d \o <<"manifest.json">>)
    /\ fs.files[d \o <<"manifest.json">>].kind = "manifest"

\* C1 (as stated): every ota-bundle invocation that supplies two or more of
\* the five selectors makes main return a non-zero status, and nothing has
\* been created or written when it returns.
C1_SelectorConflict ==
    (IsBundle /\ Cardinality(Supplied(last.argv)) >= 2) =>
        (last.kind = "return" /\ last.code # 0 /\ fs = pre)

\* C2 (as stated): an ota-bundle invocation that supplies no selector returns
\* a non-zero status before any filesystem side effect: the output directory
\* has not been created.
C2_NoSelector ==
    (IsBundle /\ Supplied(last.argv) = {}) =>
        (last.kind = "return" /\ last.code # 0 /\ fs = pre)

C5_SignatureSecret ==
    (/\ last.cmd = "ota-verify"
     /\ IsFile(fs, <<last.argv.payload>>)
     /\ fs.files[<<last.argv.payload>>].signature # NoSig
     /\ VerifierSecret(last.argv) # NONE)
    => IF VerifierSecret(last.argv) = SignedWith(fs.files[<<last.argv.payload>>].signature)
       THEN last.kind = "return" /\ last.code = 0 /\ last.text = "OK: signature valid"
       ELSE /\ last.kind = "return" /\ last.code = 1
            /\ last.text = "FAIL: signature invalid or missing"
            /\ last.text # "FAIL: bundle integrity check failed"

\* a payload signed with k1 has been verified with k2 and rejected
C5_Witness ==
    /\ last.cmd = "ota-verify"
    /\ IsFile(fs, <<last.argv.payload>>)
    /\ SignedWith(fs.files[<<last.argv.payload>>].signature) = "k1"
    /\ last.argv.secret = "k2"
    /\ last.code = 1

NotFoundError == "ValueError: manifest.json not found in zip"
AmbiguousError == "ValueError: multiple manifest.json found in zip (ambiguous)"

\* the manifest files of the arrangement, and those at the root or one level down
Manifests == {p \in arr : p[Len(p)] = "manifest.json"}
Candidates == {p \in Manifests : Len(p) <= 2}

\* C6 (as stated): discovery accepts exactly when one manifest lies at the
\* root or one level inside a top-level subdirectory; with no such candidate
\* it fails as not found, with more than one as ambiguous.
C6_OneCandidate ==
    (found # NotRun) =>
        /\ (found.exc = NONE) <=> (Cardinality(Candidates) = 1)
        /\ (Candidates = {}) => (found.exc = NotFoundError)
        /\ (Cardinality(Candidates) > 1) => (found.exc = AmbiguousError)

\* C6 (amended): a manifest directly at the root is accepted whatever else
\* the archive holds; without one, discovery accepts exactly when a single
\* manifest.json exists at any depth and returns its directory; it fails as
\* not found exactly when there is none, and as ambiguous exactly when
\* there are several and none at the root.
C6_Discovery ==
    (found # NotRun) =>
        /\ (found.exc = NONE) <=> (<<"manifest.json">> \in arr \/ Cardinality(Manifests) = 1)
        /\ (found.exc = NONE) => (Append(found.val, "manifest.json") \in arr)
        /\ (<<"manifest.json">> \in arr) => (found.exc = NONE /\ found.val = <<>>)
        /\ (found.exc = NotFoundError) <=> (Manifests = {})
        /\ (found.exc = AmbiguousError) <=> (<<"manifest.json">> \notin arr /\ Cardinality(Manifests) > 1)

\* the root is accepted although a second manifest lies in a subdirectory
C6_Witness ==
    /\ found # NotRun
    /\ found.exc = NONE
    /\ found.val = <<>>
    /\ Cardinality(Manifests) > 1

Modes == {"single-pack", "per-pack", "multi-pack"}

\* C7 (as stated): every top-level manifest the build writes has a mode of
\* single-pack, per-pack or multi-pack, the session selector included.
C7_ThreeModes ==
    \A p \in TopManifests(fs) : fs.files[p].mode \in Modes

\* C7 (amended): every top-level manifest has one of four modes; the
\* session selector writes the fourth, single-session.
C7_FourModes ==
    /\ \A p \in TopManifests(fs) : fs.files[p].mode \in Modes \cup {"single-session"}
    /\ (IsBundle /\ last.kind = "return" /\ last.code = 0 /\ Supplied(last.argv) = {"session"})
       => (/\ IsFile(fs, ManifestOf(last.argv))
           /\ fs.files[ManifestOf(last.argv)].mode = "single-session")

\* a session build has written its manifest
C7_Witness ==
    /\ IsBundle
    /\ last.code = 0
    /\ Supplied(last.argv) = {"session"}
    /\ ManifestOf(last.argv) \in TopManifests(fs)

\* a manifest field that is present and not null
Populated(m, field) == field \in DOMAIN m /\ m[field] # <<>>

C9_SinglePack ==
    (IsBundle /\ Supplied(last.argv) = {"dance_pack"}) =>
        /\ last.kind = "return"
        /\ last.code = 0
        /\ IsFile(fs, ManifestOf(last.argv))
        /\ fs.files[ManifestOf(last.argv)].mode = "single-pack"
        /\ Populated(fs.files[ManifestOf(last.argv)], "pack")
        /\ fs.files[ManifestOf(last.argv)].pack[1].pack_id = last.argv.dance_pack
        /\ Len(fs.files[ManifestOf(last.argv)].outputs) = 1
        /\ ~Populated(fs.files[ManifestOf(last.argv)], "set")

\* the pack sets whose packs are all bundled, by selector value
ResolvableSets == {"setA", "good.yaml"}

\* C10 (as stated, with the success the test suite requires of a pack set
\* whose references all resolve): a per-pack build exits 0 and writes a
\* manifest with mode per-pack, one output per pack id of the set, every
\* output carrying its own dance_pack_id, pairwise distinct, each a member of
\* set.pack_ids.
C10_PerPack ==
    (/\ IsBundle
     /\ Cardinality(Supplied(last.argv)) = 1
     /\ Supplied(last.argv) \subseteq {"dance_pack_set", "dance_pack_set_path"}
     /\ \A k \in Supplied(last.argv) : last.argv[k] \in ResolvableSets
     /\ ~last.argv.multi_pack)
    => /\ last.kind = "return"
       /\ last.code = 0
       /\ IsFile(fs, ManifestOf(last.argv))
       /\ LET m == fs.files[ManifestOf(last.argv)]
          IN /\ m.mode = "per-pack"
             /\ Len(m.outputs) = Len(m.set[1].pack_ids)
             /\ \A i, j \in DOMAIN m.outputs :
                   (i # j) => (m.outputs[i].dance_pack_id # m.outputs[j].dance_pack_id)
             /\ \A i \in DOMAIN m.outputs :
                   \E j \in DOMAIN m.set[1].pack_ids :
                       m.outputs[i].dance_pack_id = m.set[1].pack_ids[j]

\* an ota-bundle invocation that names one pack set whose references all
\* resolve, and nothing else
BuildsResolvableSet ==
    /\ IsBundle
    /\ Cardinality(Supplied(last.argv)) = 1
    /\ Supplied(last.argv) \subseteq {"dance_pack_set", "dance_pack_set_path"}
    /\ \A k \in Supplied(last.argv) : last.argv[k] \in ResolvableSets

\* the multi-pack manifest m written below <out>: one output, its bundle_dir
\* the combined root, its packs list holding each set member exactly once,
\* every sub_bundle_dir relative to the combined root and naming a directory
MultiPackShape(m, out) ==
    /\ m.mode = "multi-pack"
    /\ Len(m.outputs) = 1
    /\ m.outputs[1].bundle_dir = <<out, "ota_bundle__" \o m.set[1].id>>
    /\ IsDir(fs, m.outputs[1].bundle_dir)
    /\ Len(m.outputs[1].packs) = Len(m.set[1].pack_ids)
    /\ \A j \in DOMAIN m.set[1].pack_ids :
          Cardinality({i \in DOMAIN m.outputs[1].packs :
                          m.outputs[1].packs[i].dance_pack_id = m.set[1].pack_ids[j]}) = 1
    /\ \A i \in DOMAIN m.outputs[1].packs :
          /\ m.outputs[1].packs[i].sub_bundle_dir # <<>>
          /\ m.outputs[1].packs[i].sub_bundle_dir[1] # out
          /\ IsDir(fs, m.outputs[1].bundle_dir \o m.outputs[1].packs[i].sub_bundle_dir)

\* C11 (as stated, with the success the test suite requires of a pack set
\* whose references all resolve): a multi-pack build exits 0 and writes a
\* manifest with mode multi-pack and exactly one output, whose bundle_dir is
\* the combined root and whose packs list has exactly one entry per set
\* member, each with its relative sub-bundle directory.
C11_MultiPack ==
    (BuildsResolvableSet /\ last.argv.multi_pack)
    => /\ last.kind = "return"
       /\ last.code = 0
       /\ IsFile(fs, ManifestOf(last.argv))
       /\ MultiPackShape(fs.files[ManifestOf(last.argv)], last.argv.out)

\* a call of _build_multi_pack_bundle that returned 0
MultiPackReturned ==
    last.cmd = "_build_multi_pack_bundle" /\ last.kind = "return" /\ last.code = 0

\* the manifest shape of C11 on every call of _build_multi_pack_bundle that
\* returns, the bindings being of the declared type
MultiPackShapeOnReturn ==
    MultiPackReturned => MultiPackShape(fs.files[ManifestOf(last.argv)], last.argv.out)

\* the pack ids of the set an ota-bundle command line names, in file order
SetMembers(a) ==
    IF a.dance_pack_set # NONE
    THEN (CHOOSE raw \in PackSetPackage : raw.id = a.dance_pack_set).packs
    ELSE PackSetFileRaw(a.dance_pack_set_path).packs

\* entry i is about member i of ids, which is entry i of set.pack_ids
InSetOrder(entries, m, ids) ==
    /\ Len(entries) = Len(ids)
    /\ Len(m.set[1].pack_ids) = Len(ids)
    /\ \A i \in DOMAIN entries :
          /\ entries[i].dance_pack_id = PyStr(ids[i])
          /\ m.set[1].pack_ids[i] = PyStr(ids[i])

\* C12 (as stated, with the success the test suite requires): a build from a
\* pack set whose references all resolve exits 0, and the i-th entry of
\* outputs (per-pack) or of outputs[0].packs (multi-pack) is the i-th pack
\* of the set, which is the i-th entry of set.pack_ids.
C12_SetOrder ==
    BuildsResolvableSet
    => /\ last.kind = "return"
       /\ last.code = 0
       /\ IsFile(fs, ManifestOf(last.argv))
       /\ InSetOrder(IF last.argv.multi_pack
                     THEN fs.files[ManifestOf(last.argv)].outputs[1].packs
                     ELSE fs.files[ManifestOf(last.argv)].outputs,
                     fs.files[ManifestOf(last.argv)], SetMembers(last.argv))

\* the order of C12 on every call of _build_multi_pack_bundle that returns
MultiPackOrderOnReturn ==
    MultiPackReturned
    => InSetOrder(fs.files[ManifestOf(last.argv)].outputs[1].packs,
                  fs.files[ManifestOf(last.argv)], last.argv.pack_ids)

\* the wrapper manifest of the combined bundle a call has written
WrapperOf(a) == fs.files[<<a.out, "ota_bundle__" \o a.set_id, "bundle_manifest.json">>]

\* the wrapper manifest w carries the set-level fields, and every packs
\* entry carries the fields named in keys
WrapperFields(w, keys) ==
    /\ {"schema_id", "set_id", "set_display_name", "tier", "pack_count", "packs"} \subseteq DOMAIN w
    /\ w.schema_id = "ota_multi_pack_bundle"
    /\ w.pack_count = Len(w.packs)
    /\ \A i \in DOMAIN w.packs : keys \subseteq DOMAIN w.packs[i]

\* C13 (as stated): the wrapper manifest bundle_manifest.json of a combined
\* bundle has schema_id ota_multi_pack_bundle, set_id, set_display_name,
\* tier, pack_count and packs, and every packs entry carries dance_pack_id,
\* display_name, sub_bundle_dir and manifest_path.
C13_WrapperManifest ==
    MultiPackReturned
    => WrapperFields(WrapperOf(last.argv),
                     {"dance_pack_id", "display_name", "sub_bundle_dir", "manifest_path"})

\* what the wrapper manifest does carry: everything of C13 but manifest_path
WrapperWithoutManifestPath ==
    MultiPackReturned
    => /\ WrapperFields(WrapperOf(last.argv), {"dance_pack_id", "display_name", "sub_bundle_dir"})
       /\ \A i \in DOMAIN WrapperOf(last.argv).packs :
             "manifest_path" \notin DOMAIN WrapperOf(last.argv).packs[i]

\* the root of the combined bundle a call has written
BundleRootOf(a) == <<a.out, "ota_bundle__" \o a.set_id>>

\* relative path r names something strictly below relative path d
StrictlyInside(r, d) == Len(r) > Len(d) /\ SubSeq(r, 1, Len(d)) = d

\* the sub_bundle_dir of wrapper entry e is an existing directory strictly
\* inside the bundle root
SubBundleDirInside(e, root) ==
    /\ StrictlyInside(e.sub_bundle_dir, <<>>)
    /\ ".." \notin Range(e.sub_bundle_dir)
    /\ IsDir(fs, root \o e.sub_bundle_dir)

\* C14 (as stated): every packs entry of the wrapper manifest has a
\* manifest_path that resolves to an existing file strictly inside the
\* entry's sub_bundle_dir, and a sub_bundle_dir that is an existing
\* directory strictly inside the bundle root.
C14_WrapperPaths ==
    MultiPackReturned
    => \A i \in DOMAIN WrapperOf(last.argv).packs :
          /\ SubBundleDirInside(WrapperOf(last.argv).packs[i], BundleRootOf(last.argv))
          /\ "manifest_path" \in DOMAIN WrapperOf(last.argv).packs[i]
          /\ StrictlyInside(WrapperOf(last.argv).packs[i].manifest_path,
                            WrapperOf(last.argv).packs[i].sub_bundle_dir)
          /\ IsFile(fs, BundleRootOf(last.argv) \o WrapperOf(last.argv).packs[i].manifest_path)

\* the part of C14 about sub_bundle_dir, with the sub-bundle's manifest in it
SubBundleDirsOnReturn ==
    MultiPackReturned
    => \A i \in DOMAIN WrapperOf(last.argv).packs :
          /\ SubBundleDirInside(WrapperOf(last.argv).packs[i], BundleRootOf(last.argv))
          /\ IsFile(fs, BundleRootOf(last.argv) \o WrapperOf(last.argv).packs[i].sub_bundle_dir
                                               \o <<"manifest.json">>)

\* the assignment.json of bundle directory d carries the ids that pack id
\* alone determines
IdsOfPack(d, id) ==
    /\ IsFile(fs, d \o <<"assignment.json">>)
    /\ fs.files[d \o <<"assignment.json">>].payload.assignment_id
          = uuid5("pack-default-assignment:" \o id)
    /\ fs.files[d \o <<"assignment.json">>].payload.session_id
          = uuid5("pack-default-session:" \o id)

\* C15 (as stated, with the builds of test_deterministic_uuids_for_same_pack):
\* a build from pack id P, whatever its output root, exits 0 and writes an
\* assignment whose assignment_id and session_id are the values P alone
\* determines, so that two builds from P carry identical ids.
C15_DeterministicIds ==
    (IsBundle /\ Supplied(last.argv) = {"dance_pack"})
    => /\ last.kind = "return"
       /\ last.code = 0
       /\ IsFile(fs, ManifestOf(last.argv))
       /\ IdsOfPack(fs.files[ManifestOf(last.argv)].outputs[1].bundle_dir, last.argv.dance_pack)

\* the ids of C15 in every sub-bundle a returning call of
\* _build_multi_pack_bundle has written, whatever the output root, the
\* packaging and the secret
PackDefaultIdsOnReturn ==
    MultiPackReturned
    => \A i \in DOMAIN last.argv.pack_ids :
          IdsOfPack(BundleRootOf(last.argv) \o <<last.argv.pack_ids[i]>>, last.argv.pack_ids[i])

\* C16: when a zip verification has ended, with OK, with FAIL, or with an
\* exception that main turned into exit status 1, the temporary extraction
\* directory and everything extracted into it are gone.
C16_TempDirRemoved ==
    last.cmd = "ota-verify-zip" => (~Exists(fs, TempDir) /\ Under(fs, TempDir) = {})

\* a zip verification that ended by an exception: the file is no archive
C16_Witness ==
    /\ last.cmd = "ota-verify-zip"
    /\ last.text = "ERROR: BadZipFile"
    /\ IsFile(fs, last.argv.zip_path)
    /\ ~Exists(fs, TempDir)

\* zip verifications that ended with OK, and with a FAIL of the archive's content
ZipVerifiedOk == last.cmd = "ota-verify-zip" /\ last.code = 0 /\ IsZip(last.argv.zip_path)
ZipVerifiedFail == last.cmd = "ota-verify-zip" /\ last.code = 1 /\ IsZip(last.argv.zip_path)

\* C17: a verification, of a folder, of a zip or of a signed payload, leaves
\* the filesystem as it found it, and with it the bundle under test: every
\* directory and every file is there with the content it had before.
C17_VerifyReadOnly ==
    (last.cmd \in {"ota-verify-folder", "ota-verify-zip", "ota-verify"}) => (fs = pre)

\* a folder verification of a bundle, which is as it was before
C17_Witness ==
    /\ last.cmd = "ota-verify-folder"
    /\ IsBundleDir(last.argv.bundle_dir)
    /\ last.code = 0
    /\ Tree(fs, last.argv.bundle_dir) = Tree(pre, last.argv.bundle_dir)

\* a payload verification that read a payload file
PayloadVerified == last.cmd = "ota-verify" /\ last.code = 0 /\ IsFile(fs, <<last.argv.payload>>)

\* C18 (as stated): an output whose name is already taken in the output
\* directory is refused with NAME_COLLISION, and what was there is neither
\* overwritten nor merged into: a combined bundle whose folder name exists
\* raises, and the existing folder keeps exactly its files.
C18_NameCollision ==
    (last.cmd = "_build_multi_pack_bundle" /\ Exists(pre, BundleRootOf(last.argv)))
    => /\ last.kind = "raise"
       /\ last.text = "FileExistsError: NAME_COLLISION"
       /\ Tree(fs, BundleRootOf(last.argv)) = Tree(pre, BundleRootOf(last.argv))

\* within one combined bundle no two sub-bundles share a directory
SubBundleNamesDistinctOnReturn ==
    MultiPackReturned
    => \A i, j \in DOMAIN WrapperOf(last.argv).packs :
          (i # j) => (WrapperOf(last.argv).packs[i].sub_bundle_dir
                        # WrapperOf(last.argv).packs[j].sub_bundle_dir)

\* the folder name a per-pack build gives the bundle of pack id
PerPackName(id) == "ota_bundle__" \o id

\* C19 (as stated, with the success the test suite requires): a per-pack
\* build of a pack set whose references all resolve exits 0, the folder
\* names of its outputs are pairwise distinct, and the folder name of each
\* output contains the output's dance_pack_id.
C19_PerPackNames ==
    (BuildsResolvableSet /\ ~last.argv.multi_pack)
    => /\ last.kind = "return"
       /\ last.code = 0
       /\ IsFile(fs, ManifestOf(last.argv))
       /\ \A i, j \in DOMAIN fs.files[ManifestOf(last.argv)].outputs :
             (i # j) => (Last(fs.files[ManifestOf(last.argv)].outputs[i].bundle_dir)
                           # Last(fs.files[ManifestOf(last.argv)].outputs[j].bundle_dir))
       /\ \A i \in DOMAIN fs.files[ManifestOf(last.argv)].outputs :
             Last(fs.files[ManifestOf(last.argv)].outputs[i].bundle_dir)
               = PerPackName(fs.files[ManifestOf(last.argv)].outputs[i].dance_pack_id.v)

\* C20 (as stated): the folder name of the combined bundle of a set differs
\* from the folder name a per-pack build gives any pack of that set.
C20_CombinedNameDiffers ==
    MultiPackReturned
    => Last(fs.files[ManifestOf(last.argv)].outputs[1].bundle_dir)
         \notin {PerPackName(last.argv.pack_ids[i]) : i \in DOMAIN last.argv.pack_ids}

\* the combined folder name differs from the per-pack names whenever the set
\* id is not the id of one of the set's packs
CombinedNameDiffersUnlessSameId ==
    (MultiPackReturned /\ last.argv.set_id \notin Range(last.argv.pack_ids))
    => Last(fs.files[ManifestOf(last.argv)].outputs[1].bundle_dir)
         \notin {PerPackName(last.argv.pack_ids[i]) : i \in DOMAIN last.argv.pack_ids}

\* C21 (as stated, for the combined root): when --name N is supplied to a
\* multi-pack build, the combined root recorded in outputs[0].bundle_dir is
\* named exactly N, and the sub-bundle directories are named by the pack ids.
C21_NameOverride ==
    (MultiPackReturned /\ last.argv.name # NONE)
    => /\ Last(fs.files[ManifestOf(last.argv)].outputs[1].bundle_dir) = last.argv.name
       /\ \A i \in DOMAIN last.argv.pack_ids :
             fs.files[ManifestOf(last.argv)].outputs[1].packs[i].sub_bundle_dir
               = <<last.argv.pack_ids[i]>>

\* a session build gives the bundle folder the name --name supplies
SessionNameHonoured ==
    (IsBundle /\ Supplied(last.argv) = {"session"} /\ last.argv.name # NONE /\ last.code = 0)
    => Last(fs.files[ManifestOf(last.argv)].outputs[1].bundle_dir) = last.argv.name

\* the combined root is named by the set id whatever --name says, and the
\* sub-bundle directories by the pack ids
CombinedRootNamedBySet ==
    MultiPackReturned
    => /\ Last(fs.files[ManifestOf(last.argv)].outputs[1].bundle_dir)
            = "ota_bundle__" \o last.argv.set_id
       /\ \A i \in DOMAIN last.argv.pack_ids :
             fs.files[ManifestOf(last.argv)].outputs[1].packs[i].sub_bundle_dir
               = <<last.argv.pack_ids[i]>>

\* a document has been put to load_set_from_yaml_text
SetLoaded == found # NotRun

\* C22: every set the validation accepts has at least one pack and pairwise
\* distinct pack ids; a document whose packs list is empty or names a pack
\* id twice is rejected with a validation error.
C22_SetValidation ==
    SetLoaded
    => /\ (found.exc = NONE)
            => /\ Len(found.val.packs) >= 1
               /\ \A i, j \in DOMAIN found.val.packs :
                     (i # j) => (found.val.packs[i].v # found.val.packs[j].v)
       /\ (Len(arr.packs) = 0 \/ \E i, j \in DOMAIN arr.packs : i # j /\ arr.packs[i] = arr.packs[j])
            => found.exc = "ValidationError"

\* a document that names a pack id twice has been rejected
C22_Witness ==
    /\ SetLoaded
    /\ \E i, j \in DOMAIN arr.packs : i # j /\ arr.packs[i] = arr.packs[j]
    /\ found.exc = "ValidationError"

\* accepted documents, and rejected empty ones
SetAccepted == SetLoaded /\ found.exc = NONE /\ Len(found.val.packs) = 2
EmptySetRejected == SetLoaded /\ Len(arr.packs) = 0 /\ found.exc = "ValidationError"

\* C23 (as stated): for a validated set whose pack references all resolve,
\* get_pack_defaults_from_set returns one binding per pack of the set, in set
\* order, the i-th with the pack id string of the i-th pack and with that
\* pack and its defaults.
C23_Bindings ==
    (last.cmd = "get_pack_defaults_from_set" /\ last.refs = NONE)
    => /\ last.defaults.exc = NONE
       /\ Len(last.defaults.val.packs) = Len(found.val.packs)
       /\ \A i \in DOMAIN found.val.packs :
             /\ last.defaults.val.packs[i].pack_id = PyStr(found.val.packs[i].v)
             /\ last.defaults.val.packs[i].pack = DancePackV1(found.val.packs[i].v)
             /\ last.defaults.val.packs[i].defaults
                   = pack_to_assignment_defaults(DancePackV1(found.val.packs[i].v))

\* get_pack_defaults_from_set raises for every validated set, resolvable or not
PackDefaultsAlwaysRaise ==
    (last.cmd = "get_pack_defaults_from_set") => (last.defaults.exc = "DancePackLoadError")

\* the gate has run on a change set it could read
GateRan == found # NotRun /\ arr.git /\ arr.version # "malformed"

\* the contracts of a change set
ContractChanges(changed) == {q \in changed : is_contract_schema(q) \/ is_contract_sha(q)}

\* the stems a CHANGELOG_MISSING_MENTIONS violation names
MissingMentions == UNION {v.about : v \in {w \in found.violations : w.code = "CHANGELOG_MISSING_MENTIONS"}}

\* C24 (as stated): when a contract with stem S changed together with the
\* changelog, S is free of a CHANGELOG_MISSING_MENTIONS violation only if
\* the changelog diff contains S as a whole token; a diff that has S only
\* inside a longer identifier yields the violation for S.
C24_TokenSafe ==
    (GateRan /\ ChangelogPath \in arr.changed)
    => \A q \in ContractChanges(arr.changed) :
          (contract_stem(q) \notin MissingMentions) <=> stem_mentioned(arr.diff, contract_stem(q))

\* what the gate tests: the stem anywhere in the diff, inside a longer
\* identifier or not
SubstringMention ==
    (GateRan /\ ChangelogPath \in arr.changed)
    => \A q \in ContractChanges(arr.changed) :
          (contract_stem(q) \notin MissingMentions) <=> Contains(arr.diff, contract_stem(q))

\* the files contracts/*_v1.schema.json and contracts/*_v1.schema.sha256
V1Contracts ==
    {<<"contracts/", "a", "_v1", ".schema.json">>, <<"contracts/", "a", "_v1", ".schema.sha256">>}

\* C25: with public_released true, a change set that touches a v1 contract
\* or its hash file yields a V1_IMMUTABLE violation and exit code 1; with
\* the version file missing or public_released false, no change set yields
\* a V1_IMMUTABLE violation.
C25_V1Immutable ==
    GateRan
    => /\ (arr.version = "released" /\ arr.changed \cap V1Contracts # {})
            => /\ found.code = 1
               /\ \E v \in found.violations :
                     v.code = "V1_IMMUTABLE" /\ v.about = arr.changed \cap V1Contracts
       /\ (arr.version \in {"missing", "unreleased"})
            => \A v \in found.violations : v.code # "V1_IMMUTABLE"

\* a released repository, a v1 contract touched, the gate has refused
C25_Witness ==
    /\ GateRan
    /\ arr.version = "released"
    /\ arr.changed \cap V1Contracts # {}
    /\ found.code = 1
    /\ \E v \in found.violations : v.code = "V1_IMMUTABLE"

\* an unreleased repository whose v1 contract changed with its changelog
\* entry, and the gate has passed
V1ChangedBeforeRelease ==
    GateRan /\ arr.version = "missing" /\ arr.changed \cap V1Contracts # {} /\ found.code = 0

\* a call of the multi-pack or of the per-pack branch has ended
PackSetCall == last.cmd \in {"_build_multi_pack_bundle", "_build_bundles_from_pack_set"}

\* the bundle directory of the i-th pack of a call
TargetDir(a, i) ==
    IF a.multi_pack THEN <<a.out, "ota_bundle__" \o a.set_id, a.pack_ids[i]>>
    ELSE <<a.out, "ota_bundle__" \o a.pack_ids[i]>>

\* a bundle has been written into directory d
Built(f, d) == IsFile(f, d \o <<"manifest.json">>)

\* file p is as it was before the call, or was and is absent
Untouched(p) == IsFile(fs, p) => (IsFile(pre, p) /\ fs.files[p] = pre.files[p])

\* C26: when the bundle of some pack of a per-pack or multi-pack build fails,
\* the call ends in an error (exit status non-zero) with the top-level
\* manifest not written, the bundles of the packs before the failing one on
\* disk, no pack after it built, and nothing that was there removed; a call
\* that returns has written the manifest with every pack's bundle built.
C26_FailureMidway ==
    PackSetCall
    => /\ (last.kind = "raise")
            => /\ last.code # 0
               /\ Untouched(ManifestOf(last.argv))
               /\ \E k \in DOMAIN last.argv.pack_ids :
                     /\ Exists(pre, TargetDir(last.argv, k))
                     /\ \A i \in 1..(k - 1) :
                           ~Exists(pre, TargetDir(last.argv, i)) /\ Built(fs, TargetDir(last.argv, i))
                     /\ \A i \in (k + 1)..Len(last.argv.pack_ids) :
                           Exists(fs, TargetDir(last.argv, i)) => Exists(pre, TargetDir(last.argv, i))
               /\ pre.dirs \subseteq fs.dirs
               /\ \A q \in DOMAIN pre.files : IsFile(fs, q) /\ fs.files[q] = pre.files[q]
       /\ (last.kind = "return")
            => /\ IsFile(fs, ManifestOf(last.argv))
               /\ \A i \in DOMAIN last.argv.pack_ids : Built(fs, TargetDir(last.argv, i))

\* a combined build whose second pack failed after its first was built
C26_Witness ==
    /\ last.cmd = "_build_multi_pack_bundle"
    /\ last.kind = "raise"
    /\ Len(last.argv.pack_ids) = 2
    /\ ~Exists(pre, TargetDir(last.argv, 1))
    /\ Built(fs, TargetDir(last.argv, 1))
    /\ Untouched(ManifestOf(last.argv))

\* a per-pack build whose second pack failed after its first was built
PerPackFailedMidway ==
    /\ last.cmd = "_build_bundles_from_pack_set"
    /\ last.kind = "raise"
    /\ Len(last.argv.pack_ids) = 2
    /\ ~Exists(pre, TargetDir(last.argv, 1))
    /\ Built(fs, TargetDir(last.argv, 1))

\* through main a pack-set build that ends in an error has written no manifest
PackSetErrorWritesNoManifest ==
    (IsBundle /\ Supplied(last.argv) \cap {"dance_pack_set", "dance_pack_set_path"} # {}
       /\ last.code # 0)
    => Untouched(ManifestOf(last.argv))

\* the archive of the combined bundle of a call
CombinedZipOf(a) == <<a.out, "ota_bundle__" \o a.set_id \o ".zip">>

\* the archives a call created or rewrote
NewZips ==
    {p \in DOMAIN fs.files :
        fs.files[p].kind = "zip" /\ ~(IsFile(pre, p) /\ pre.files[p] = fs.files[p])}

\* C27: a combined build with --zip makes one archive, of the combined root,
\* after every sub-bundle is built and the wrapper manifest is written: the
\* archive holds the root as it is on disk when the call returns, with the
\* wrapper manifest and the bundle of every pack in a subdirectory named by
\* the pack id. No other archive is made: none for a sub-bundle, none when a
\* pack fails, none without --zip.
C27_ZipAfterWrapper ==
    last.cmd = "_build_multi_pack_bundle"
    => /\ NewZips \subseteq {CombinedZipOf(last.argv)}
       /\ (CombinedZipOf(last.argv) \in NewZips) => (last.kind = "return" /\ last.argv.zip)
       /\ (last.kind = "return" /\ last.argv.zip)
            => /\ IsZip(CombinedZipOf(last.argv))
               /\ LET e == fs.files[CombinedZipOf(last.argv)].entries
                      root == BundleRootOf(last.argv)
                  IN /\ e = Tree(fs, root)
                     /\ <<"bundle_manifest.json">> \in DOMAIN e
                     /\ e[<<"bundle_manifest.json">>].packs = fs.files[ManifestOf(last.argv)].outputs[1].packs
                     /\ \A i \in DOMAIN last.argv.pack_ids :
                           <<last.argv.pack_ids[i], "manifest.json">> \in DOMAIN e
                     /\ \A q \in DOMAIN e : e[q].kind # "zip"

\* a combined build of two packs with --zip has returned
C27_Witness ==
    /\ MultiPackReturned
    /\ last.argv.zip
    /\ Len(last.argv.pack_ids) = 2
    /\ IsZip(CombinedZipOf(last.argv))

\* a combined build with --zip failed at its second pack
ZippedBuildFailedMidway ==
    /\ last.cmd = "_build_multi_pack_bundle"
    /\ last.kind = "raise"
    /\ last.argv.zip
    /\ Built(fs, TargetDir(last.argv, 1))
    /\ ~Built(pre, TargetDir(last.argv, 1))

\* a combined build into a root an earlier build left: the archive also
\* holds the sub-bundle of a pack that is not in the set
ArchiveHoldsStaleSubBundle ==
    /\ MultiPackReturned
    /\ last.argv.zip
    /\ \E q \in DOMAIN fs.files[CombinedZipOf(last.argv)].entries :
          Len(q) = 2 /\ \A i \in DOMAIN last.argv.pack_ids : q[1] # last.argv.pack_ids[i]

\* the command line selects a set whose id does not resolve, or a set file
\* that references a pack id that does not resolve
SelectsUnresolvable(a) == a.dance_pack_set = "nosuch" \/ a.dance_pack_set_path = "badref.yaml"

\* C28: an ota-bundle run that selects a set id that does not resolve, or a
\* set that references a pack id that does not resolve, exits with a non-zero
\* status having created no file at all (no bundle, archive or manifest) and
\* no directory other than the output directory itself.
C28_UnresolvedBuildsNothing ==
    (IsBundle /\ SelectsUnresolvable(last.argv))
    => /\ last.code # 0
       /\ DOMAIN fs.files = DOMAIN pre.files
       /\ \A q \in DOMAIN pre.files : fs.files[q] = pre.files[q]
       /\ fs.dirs \subseteq pre.dirs \cup {<<last.argv.out>>}
       /\ pre.dirs \subseteq fs.dirs

\* a set file that references the unknown pack px was selected and refused
C28_Witness ==
    /\ IsBundle
    /\ last.argv.dance_pack_set_path = "badref.yaml"
    /\ last.text = "ERROR: DancePackLoadError"
    /\ last.code = 1
    /\ IsDir(fs, <<last.argv.out>>)

\* an unknown set id was selected and refused
UnknownSetIdRefused ==
    /\ IsBundle
    /\ last.argv.dance_pack_set = "nosuch"
    /\ last.text = "ERROR: KeyError"
    /\ last.code = 1

PerPackManifestOfTwo ==
    /\ last.cmd = "_build_bundles_from_pack_set"
    /\ last.kind = "return"
    /\ Len(fs.files[ManifestOf(last.argv)].outputs) = 2

\* through main no pack-set build writes a manifest
NoPackSetManifestThroughMain ==
    (IsBundle /\ Supplied(last.argv) \cap {"dance_pack_set", "dance_pack_set_path"} # {})
    => last.code # 0

\* ota-verify has run on a payload file that exists
VerifiedPayload == last.cmd = "ota-verify" /\ IsFile(fs, <<last.argv.payload>>)

\* the signature of the payload ota-verify was given
SignatureOf(a) == fs.files[<<a.payload>>].signature

\* C30: ota-verify reports a valid signature (exit 0, "OK: signature valid")
\* only when a secret was supplied and the payload carries the signature made
\* with that secret. On a payload it can read: without --secret and
\* --secret-file it exits 1 asking for a secret, whatever the signature; with
\* a secret, an unsigned payload or a signature made with another secret
\* exits 1. The payload file is never changed.
C30_NoPassWithoutSecret ==
    /\ (last.cmd = "ota-verify" /\ (last.code = 0 \/ last.text = "OK: signature valid"))
         => /\ VerifiedPayload
            /\ VerifierSecret(last.argv) # NONE
            /\ SignatureOf(last.argv) # NoSig
            /\ SignedWith(SignatureOf(last.argv)) = VerifierSecret(last.argv)
            /\ last.code = 0 /\ last.text = "OK: signature valid"
    /\ (VerifiedPayload /\ last.argv.secret = NONE /\ last.argv.secret_file = NONE)
         => last.code = 1 /\ last.text = "ERROR: --secret or --secret-file required"
    /\ (VerifiedPayload /\ VerifierSecret(last.argv) # NONE
           /\ (SignatureOf(last.argv) = NoSig
                 \/ SignedWith(SignatureOf(last.argv)) # VerifierSecret(last.argv)))
         => last.code = 1 /\ last.text = "FAIL: signature invalid or missing"
    /\ VerifiedPayload => fs = pre

\* a signed payload was verified with no secret and refused
C30_Witness ==
    /\ VerifiedPayload
    /\ last.argv.secret = NONE /\ last.argv.secret_file = NONE
    /\ SignatureOf(last.argv) # NoSig
    /\ last.code = 1

\* an unsigned payload was verified with no secret and refused
UnsignedWithoutSecretRefused ==
    /\ VerifiedPayload
    /\ last.argv.secret = NONE /\ last.argv.secret_file = NONE
    /\ SignatureOf(last.argv) = NoSig
    /\ last.code = 1

\* an unsigned payload was verified with a secret and refused
UnsignedWithSecretRefused ==
    /\ VerifiedPayload
    /\ VerifierSecret(last.argv) # NONE
    /\ SignatureOf(last.argv) = NoSig
    /\ last.code = 1

\* a payload was verified with the secret it was signed with, read from a file
ValidSignatureFromSecretFile ==
    /\ VerifiedPayload
    /\ last.argv.secret_file = "kf"
    /\ last.code = 0

\* with no payload file the command ends with status 2 before it looks for a secret
MissingPayloadIsStatus2 ==
    (last.cmd = "ota-verify" /\ ~IsFile(fs, <<last.argv.payload>>)) => last.code = 2

====
